---- MODULE Spec2Model ----
(***************************************************************************)
(* Model of the dq_copilot analysis pipeline:                              *)
(*   TableLoaderAgent.load -> ProfilerAgent.profile                        *)
(*   profile -> AnomalyDetectorAgent.detect -> TestGeneratorAgent.generate *)
(*           -> YamlGenerator.generate                                     *)
(*                                                                         *)
(* Conventions                                                             *)
(*  - Percentages (null_pct, distinct_pct and the float thresholds) are    *)
(*    fixed-point numbers in thousandths: 450 stands for 0.45, 1000 for    *)
(*    1.0.  The profiler's floats are exact fractions [num, den].          *)
(*  - A Python str is a TLA+ string; TLC strings are atomic, so Chars      *)
(*    spells the strings whose characters the code inspects.               *)
(*  - A JSON / Python value is a tagged record [kind, val]; a Python call  *)
(*    that may raise yields Ok(value) or Raise(exception name).            *)
(***************************************************************************)
EXTENDS Integers, Sequences, FiniteSets, TLC

VARIABLES
    environ,        \* OPENAI_API_KEY ("" when unset) and whether openai imports
    api_key,        \* the --api-key option of `run` as click resolves it ("" for None)
    profile,        \* the TableProfile handed to detect and generate
    detector,       \* AnomalyDetectorAgent fields: thresholds and client
    generator,      \* TestGeneratorAgent fields: client
    pc,             \* position of the command: "load", "rejected", "profile",
                    \* "profiled", "detect", "generate", "yaml", "done", "aborted"
    detResponse,    \* outcome of the backend call made by detect (NoCall if none)
    genResponse,    \* outcome of the backend call made by generate (NoCall if none)
    detCalls,       \* number of backend calls made by the invocation of detect
    genCalls,       \* number of backend calls made by the invocation of generate
    detPath,        \* paths detect ran, in order: subsequence of <<"llm", "fallback">>
    genPath,        \* paths generate ran, in order
    issues,         \* what detect returned (a Python value), or Raise(..)
    suggestions,    \* what generate returned (a Python value), or Raise(..)
    document,       \* the dbt document YamlGenerator.generate dumps, or Raise(..)
    file,           \* the file at --table-path: whether it exists, its suffix, what
                    \* the pandas reader does with it
    df,             \* what TableLoaderAgent.load returned (the table), or Raise(..)
    again           \* outputs of the stages invoked a second time on the same inputs

vars == <<environ, api_key, profile, detector, generator, pc, detResponse, genResponse,
          detCalls, genCalls, detPath, genPath, issues, suggestions, document,
          file, df, again>>

----------------------------------------------------------------------------
(* Bounds *)

MaxCols == 2
MaxIssues == 2
MaxTests == 2

----------------------------------------------------------------------------
(* Python strings *)

UpperAlphabet ==
    <<"A","B","C","D","E","F","G","H","I","J","K","L","M",
      "N","O","P","Q","R","S","T","U","V","W","X","Y","Z">>

LowerAlphabet ==
    <<"a","b","c","d","e","f","g","h","i","j","k","l","m",
      "n","o","p","q","r","s","t","u","v","w","x","y","z">>

\* The characters of a string (every string whose characters are inspected).
Chars(s) ==
    CASE s = "user_id"    -> <<"u","s","e","r","_","i","d">>
      [] s = "ID"         -> <<"I","D">>
      [] s = "id"         -> <<"i","d">>
      [] s = "Id_No"      -> <<"I","d","_","N","o">>
      [] s = "Key"        -> <<"K","e","y">>
      [] s = "identifier" -> <<"i","d","e","n","t","i","f","i","e","r">>
      [] s = "paid"       -> <<"p","a","i","d">>
      [] s = "name"       -> <<"n","a","m","e">>
      [] s = "amount"     -> <<"a","m","o","u","n","t">>
      [] s = "QTY"        -> <<"Q","T","Y">>
      [] s = "num_id"     -> <<"n","u","m","_","i","d">>
      [] s = "foo"        -> <<"f","o","o">>
      [] s = "_id"        -> <<"_","i","d">>
      [] s = "id_"        -> <<"i","d","_">>
      [] s = "key"        -> <<"k","e","y">>
      [] s = "price"      -> <<"p","r","i","c","e">>
      [] s = "cost"       -> <<"c","o","s","t">>
      [] s = "total"      -> <<"t","o","t","a","l">>
      [] s = "sum"        -> <<"s","u","m">>
      [] s = "count"      -> <<"c","o","u","n","t">>
      [] s = "quantity"   -> <<"q","u","a","n","t","i","t","y">>
      [] s = "qty"        -> <<"q","t","y">>
      [] s = "number"     -> <<"n","u","m","b","e","r">>
      [] s = "num"        -> <<"n","u","m">>
      [] s = "column"     -> <<"c","o","l","u","m","n">>
      [] s = "test_type"  -> <<"t","e","s","t","_","t","y","p","e">>
      [] s = "config"     -> <<"c","o","n","f","i","g">>
      [] s = "x"          -> <<"x">>
      [] s = ".csv"       -> <<".","c","s","v">>
      [] s = ".CSV"       -> <<".","C","S","V">>
      [] s = ".parquet"   -> <<".","p","a","r","q","u","e","t">>
      [] s = ".pq"        -> <<".","p","q">>
      [] s = ".txt"       -> <<".","t","x","t">>
      [] s = ""           -> <<>>

\* str.lower() on one character
LowerChar(c) ==
    IF \E i \in 1..26 : UpperAlphabet[i] = c
    THEN LowerAlphabet[CHOOSE i \in 1..26 : UpperAlphabet[i] = c]
    ELSE c

\* str.lower(), on the characters of the string
Lower(cs) == [i \in 1..Len(cs) |-> LowerChar(cs[i])]

\* `needle in haystack` for two strings, on their characters
Contains(hay, needle) ==
    \E i \in 0..(Len(hay) - Len(needle)) :
        \A j \in 1..Len(needle) : hay[i + j] = needle[j]

----------------------------------------------------------------------------
(* Python values and exceptions *)

JNull   == [kind |-> "null"]
JNum(n) == [kind |-> "num", num |-> n]
JStr(s) == [kind |-> "str", str |-> s]
JArr(s) == [kind |-> "arr", arr |-> s]
JObj(f) == [kind |-> "obj", obj |-> f]
EmptyDict == JObj([k \in {} |-> JNull])

Ok(v)    == [ok |-> TRUE, val |-> v]
Raise(e) == [ok |-> FALSE, exc |-> e]

\* the next statement runs on the value of r unless r raised
Bind(r, F(_)) == IF r.ok THEN F(r.val) ELSE r

\* `key in c` for a str key
PyIn(key, c) ==
    CASE c.kind = "obj" -> Ok(key \in DOMAIN c.obj)
      [] c.kind = "str" -> Ok(Contains(Chars(c.str), Chars(key)))
      [] c.kind = "arr" -> Ok(\E i \in 1..Len(c.arr) : c.arr[i] = JStr(key))
      [] OTHER          -> Raise("TypeError")

\* `c[key]` for a str key
PyGetItem(c, key) ==
    IF c.kind = "obj"
    THEN IF key \in DOMAIN c.obj THEN Ok(c.obj[key]) ELSE Raise("KeyError")
    ELSE Raise("TypeError")

\* `c.get(key, default)`
PyGet(c, key, default) ==
    IF c.kind = "obj"
    THEN Ok(IF key \in DOMAIN c.obj THEN c.obj[key] ELSE default)
    ELSE Raise("AttributeError")

\* hash(v) succeeds: a list or a dict is unhashable
PyHashable(v) == v.kind \notin {"arr", "obj"}

\* bool(v)
PyTruthy(v) ==
    CASE v.kind = "null" -> FALSE
      [] v.kind = "num"  -> v.num # 0
      [] v.kind = "str"  -> v.str # ""
      [] v.kind = "arr"  -> Len(v.arr) > 0
      [] v.kind = "obj"  -> DOMAIN v.obj # {}

RECURSIVE SetToSeq(_)
SetToSeq(S) ==
    IF S = {} THEN <<>>
    ELSE LET e == CHOOSE e \in S : TRUE IN <<e>> \o SetToSeq(S \ {e})

\* the items `for item in v` visits
PyIter(v) ==
    CASE v.kind = "arr" -> Ok(v.arr)
      [] v.kind = "str" -> Ok([i \in 1..Len(Chars(v.str)) |-> JStr(Chars(v.str)[i])])
      [] v.kind = "obj" -> Ok([i \in 1..Cardinality(DOMAIN v.obj) |->
                                  JStr(SetToSeq(DOMAIN v.obj)[i])])
      [] OTHER          -> Raise("TypeError")

\* The outcome of client.chat.completions.create followed by reading
\* response.choices[0].message.content: the call raises, or yields a text
\* that is JSON (given by its parsed value) or is not.
NoCall        == [call |-> "none"]
CallRaises    == [call |-> "raises"]
NotJson       == [call |-> "text"]
JsonText(v)   == [call |-> "json", val |-> v]

\* create(...) then json.loads(content)
LoadResponse(resp) ==
    CASE resp.call = "raises" -> Raise("APIError")
      [] resp.call = "text"   -> Raise("JSONDecodeError")
      [] resp.call = "json"   -> Ok(resp.val)

----------------------------------------------------------------------------
(* AnomalyDetectorAgent *)

\* defaults of AnomalyDetectorAgent.__init__ (0.3, 1, 1.0)
DefaultHighNullThreshold == 300
DefaultConstantThreshold == 1
DefaultIdUniquenessThreshold == 1000

IdIndicators == {"_id", "id_", "identifier", "key"}

AmountIndicators ==
    {"amount", "price", "cost", "total", "sum",
     "count", "quantity", "qty", "number", "num"}

_is_id_column(col_name) ==
    LET col_lower == Lower(Chars(col_name)) IN
        \/ \E indicator \in IdIndicators : Contains(col_lower, Chars(indicator))
        \/ col_lower = Chars("id")

_is_amount_or_count_column(col_name) ==
    LET col_lower == Lower(Chars(col_name)) IN
        \E indicator \in AmountIndicators : Contains(col_lower, Chars(indicator))

\* The issue dict appended for one check.  The free-text fields are the
\* fixed sentences of the source; `details` and `example` interpolate
\* statistics into a fixed sentence and are kept as that sentence.
Issue(col, issue_type, severity, priority, details, justification, impact_description, action_recommendation, example, value) ==
    JObj([column                |-> JStr(col.name),
          issue_type            |-> JStr(issue_type),
          severity              |-> JStr(severity),
          priority              |-> JStr(priority),
          details               |-> JStr(details),
          justification         |-> JStr(justification),
          impact_description    |-> JStr(impact_description),
          action_recommendation |-> JStr(action_recommendation),
          example               |-> JStr(example),
          value                 |-> JNum(value)])

HighNullRateIssue(col) ==
    Issue(col, "high_null_rate", "warning", "HIGH",
          "Column has {null_pct} null values (threshold: {high_null_threshold})",
          "High null rates can indicate missing data or broken ingestion pipelines.",
          "Missing data can lead to incomplete analysis and inaccurate reporting.",
          "Check upstream data sources for missing values or adjust null thresholds.",
          "Null count: {null_pct * row_count} rows",
          col.null_pct)

\* the non_unique_id issue as it would be with the count as its value
NonUniqueIdIssue_count(col) ==
    Issue(col, "non_unique_id", "error", "CRITICAL",
          "ID column is only {distinct_pct} unique (expected 100%)",
          "ID columns are expected to be unique identifiers for each row. Duplicates cause data integrity issues.",
          "Duplicate IDs can cause double-counting in aggregations and join explosions.",
          "Remove duplicates or investigate why the ID is not unique.",
          "Unique count: {distinct_count} vs Row count: {row_count}",
          col.distinct_count)

NonUniqueIdIssue(col) ==
    Issue(col, "non_unique_id", "error", "CRITICAL",
          "ID column is only {distinct_pct} unique (expected 100%)",
          "ID columns are expected to be unique identifiers for each row. Duplicates cause data integrity issues.",
          "Duplicate IDs can cause double-counting in aggregations and join explosions.",
          "Remove duplicates or investigate why the ID is not unique.",
          "Unique count: {distinct_count} vs Row count: {row_count}",
          col.distinct_pct)

ConstantColumnIssue(col) ==
    Issue(col, "constant_column", "info", "LOW",
          "Column has only {distinct_count} distinct value(s)",
          "Constant columns provide no information gain and might be redundant.",
          "Redundant columns waste storage and computation.",
          "Consider removing this column if it's not needed for filtering.",
          "Distinct count: {distinct_count}",
          col.distinct_count)

NegativeValuesIssue(col) ==
    Issue(col, "negative_values", "warning", "HIGH",
          "Column contains negative values (min: {min}) but appears to be an amount/count field",
          "Amount and count fields are typically positive. Negative values might indicate data errors or returns.",
          "Negative values can skew totals and averages.",
          "Verify if negative values are expected (e.g., returns) or data errors.",
          "Min value: {min}",
          col.min)

\* the loop body as it would be with the null-rate comparison inclusive (>=)
ColumnIssues_inclusive(self, col) ==
    (IF col.null_pct >= self.high_null_threshold
        THEN <<HighNullRateIssue(col)>> ELSE <<>>)
    \o (IF _is_id_column(col.name) /\ col.distinct_pct < self.id_uniqueness_threshold
        THEN <<NonUniqueIdIssue(col)>> ELSE <<>>)
    \o (IF col.distinct_count <= self.constant_threshold
        THEN <<ConstantColumnIssue(col)>> ELSE <<>>)
    \o (IF _is_amount_or_count_column(col.name) /\ "min" \in DOMAIN col /\ col.min < 0
        THEN <<NegativeValuesIssue(col)>> ELSE <<>>)

\* the body of the loop of _detect_fallback: the issues appended for one column
ColumnIssues(self, col) ==
    (IF col.null_pct > self.high_null_threshold
        THEN <<HighNullRateIssue(col)>> ELSE <<>>)
    \o (IF _is_id_column(col.name) /\ col.distinct_pct < self.id_uniqueness_threshold
        THEN <<NonUniqueIdIssue(col)>> ELSE <<>>)
    \o (IF col.distinct_count <= self.constant_threshold
        THEN <<ConstantColumnIssue(col)>> ELSE <<>>)
    \o (IF _is_amount_or_count_column(col.name) /\ "min" \in DOMAIN col /\ col.min < 0
        THEN <<NegativeValuesIssue(col)>> ELSE <<>>)

RECURSIVE FallbackIssuesFrom(_, _, _)
FallbackIssuesFrom(self, columns, i) ==
    IF i > Len(columns) THEN <<>>
    ELSE ColumnIssues(self, columns[i]) \o FallbackIssuesFrom(self, columns, i + 1)

\* the rule engine as it would be if it ran each check over all columns in
\* turn (the list grouped by check rather than by column)
_detect_fallback_by_check(self, prof) ==
    LET all == FallbackIssuesFrom(self, prof.columns, 1) IN
    JArr(SelectSeq(all, LAMBDA e : e.obj.issue_type = JStr("high_null_rate"))
         \o SelectSeq(all, LAMBDA e : e.obj.issue_type = JStr("non_unique_id"))
         \o SelectSeq(all, LAMBDA e : e.obj.issue_type = JStr("constant_column"))
         \o SelectSeq(all, LAMBDA e : e.obj.issue_type = JStr("negative_values")))

\* AnomalyDetectorAgent._detect_fallback: the list of issues
_detect_fallback(self, prof) == JArr(FallbackIssuesFrom(self, prof.columns, 1))

\* AnomalyDetectorAgent._build_user_prompt: the f-strings read these keys of
\* every column and raise KeyError when one is missing
DetectPromptKeys == {"name", "dtype", "null_pct", "distinct_count", "distinct_pct"}

_build_detect_prompt(prof) ==
    IF \A i \in 1..Len(prof.columns) : DetectPromptKeys \subseteq DOMAIN prof.columns[i]
    THEN Ok("prompt") ELSE Raise("KeyError")

\* The statements of a _with_llm method up to and including the one backend
\* call: the prompt is built first and no call is made when that raises.
\* [ret |-> the value returned or the exception raised, calls |-> calls made]
AfterPrompt(user_prompt, afterCall) ==
    IF user_prompt.ok THEN [ret |-> afterCall, calls |-> 1]
    ELSE [ret |-> user_prompt, calls |-> 0]

\* _detect_with_llm as it would be if it validated the entries of `issues`
\* (kept the mappings only) instead of returning the array as it is
_detect_with_llm_validating(prof, resp) ==
    AfterPrompt(_build_detect_prompt(prof),
        Bind(LoadResponse(resp), LAMBDA result :
        Bind(PyGet(result, "issues", JArr(<<>>)), LAMBDA found :
            IF found.kind = "arr"
            THEN Ok(JArr(SelectSeq(found.arr, LAMBDA e : e.kind = "obj")))
            ELSE Ok(found))))

\* AnomalyDetectorAgent._detect_with_llm, given the outcome of the call it makes
_detect_with_llm(prof, resp) ==
    AfterPrompt(_build_detect_prompt(prof),
        Bind(LoadResponse(resp), LAMBDA result :
            PyGet(result, "issues", JArr(<<>>))))

\* the try / except / fall through of detect and of generate:
\* [ret, calls, path |-> the paths run, resp |-> the response received]
Tiers(client, llm, fallback, resp) ==
    IF client
    THEN IF llm.ret.ok
         THEN [ret |-> llm.ret, calls |-> llm.calls, path |-> <<"llm">>,
               resp |-> IF llm.calls = 0 THEN NoCall ELSE resp]
         ELSE [ret |-> fallback, calls |-> llm.calls, path |-> <<"llm", "fallback">>,
               resp |-> IF llm.calls = 0 THEN NoCall ELSE resp]
    ELSE [ret |-> fallback, calls |-> 0, path |-> <<"fallback">>, resp |-> NoCall]

\* AnomalyDetectorAgent.detect
detect(self, prof, resp) ==
    Tiers(self.client, _detect_with_llm(prof, resp),
          Ok(_detect_fallback(self, prof)), resp)

----------------------------------------------------------------------------
(* TestGeneratorAgent *)

valid_test_types ==
    {"not_null", "unique", "accepted_values", "relationships",
     "expect_column_values_to_be_between", "expect_column_values_to_match_regex",
     "expect_column_mean_to_be_between"}

\* the cutoff of the not_null pass of _generate_fallback (0.05)
LowNullCutoff == 50

FallbackDescription == "Rule-based test suggestions (LLM unavailable)"
DefaultLlmDescription == "LLM-generated test suggestions"

TestDict(column, test_type, config) ==
    JObj([column |-> column, test_type |-> JStr(test_type), config |-> config])

\* the four subscripts of the f-string of one issue line, in order of evaluation
IssueLine(issue) ==
    Bind(PyGetItem(issue, "column"), LAMBDA a :
    Bind(PyGetItem(issue, "issue_type"), LAMBDA b :
    Bind(PyGetItem(issue, "severity"), LAMBDA c :
    Bind(PyGetItem(issue, "details"), LAMBDA d : Ok("line")))))

RECURSIVE IssueLinesFrom(_, _)
IssueLinesFrom(items, i) ==
    IF i > Len(items) THEN Ok("prompt")
    ELSE Bind(IssueLine(items[i]), LAMBDA line : IssueLinesFrom(items, i + 1))

\* TestGeneratorAgent._build_user_prompt: the prompt, or the exception raised
_build_user_prompt(prof, iss) ==
    IF ~PyTruthy(iss) THEN Ok("prompt")
    ELSE Bind(PyIter(iss), LAMBDA items : IssueLinesFrom(items, 1))

\* `v not in S` for a set S of str: hashes v first
PyNotInStrSet(v, S) ==
    IF ~PyHashable(v) THEN Raise("TypeError")
    ELSE Ok(~(v.kind = "str" /\ v.str \in S))

\* "Ensure config exists"
WithConfig(test) ==
    IF "config" \notin DOMAIN test.obj
    THEN JObj(test.obj @@ [config |-> EmptyDict])
    ELSE test

\* one iteration of the loop of _validate_tests:
\* Ok(<<>>) when the test is skipped, Ok(<<test>>) when it is appended
ValidateOne(test, column_names) ==
    Bind(PyIn("column", test), LAMBDA hasColumn :
    IF ~hasColumn THEN Ok(<<>>) ELSE
    Bind(PyIn("test_type", test), LAMBDA hasType :
    IF ~hasType THEN Ok(<<>>) ELSE
    Bind(PyGetItem(test, "column"), LAMBDA column :
    Bind(PyNotInStrSet(column, column_names), LAMBDA badColumn :
    IF badColumn THEN Ok(<<>>) ELSE
    Bind(PyGetItem(test, "test_type"), LAMBDA type :
    Bind(PyNotInStrSet(type, valid_test_types), LAMBDA badType :
    IF badType THEN Ok(<<>>) ELSE Ok(<<WithConfig(test)>>)))))))

RECURSIVE ValidateFrom(_, _, _, _)
ValidateFrom(items, i, column_names, validated) ==
    IF i > Len(items) THEN Ok(validated)
    ELSE Bind(ValidateOne(items[i], column_names), LAMBDA one :
              ValidateFrom(items, i + 1, column_names, validated \o one))

ColumnNames(prof) == {prof.columns[i].name : i \in 1..Len(prof.columns)}

\* TestGeneratorAgent._validate_tests: the list returned, or the exception raised
_validate_tests(tests, prof) ==
    Bind(PyIter(tests), LAMBDA items :
        Bind(ValidateFrom(items, 1, ColumnNames(prof), <<>>), LAMBDA validated :
            Ok(JArr(validated))))

\* TestGeneratorAgent._generate_with_llm, given the outcome of the call it makes
_generate_with_llm(prof, iss, resp) ==
    AfterPrompt(_build_user_prompt(prof, iss),
        Bind(LoadResponse(resp), LAMBDA result :
        Bind(PyGet(result, "tests", JArr(<<>>)), LAMBDA tests :
        Bind(_validate_tests(tests, prof), LAMBDA validated_tests :
        Bind(PyGet(result, "description", JStr(DefaultLlmDescription)),
             LAMBDA description :
                 Ok(JObj([description |-> description,
                          tests |-> validated_tests])))))))

\* the iteration as it would be if every issue, whatever its type, gave a
\* `unique` test
FallbackOne_any_type(issue) ==
    Bind(PyGetItem(issue, "issue_type"), LAMBDA type :
        Bind(PyGetItem(issue, "column"), LAMBDA column :
             Ok(<<TestDict(column, "unique", EmptyDict)>>)))

\* the iteration as it would be if a `high_null_rate` issue gave a `not_null`
\* test instead of being skipped
FallbackOne_high_null_tested(issue) ==
    Bind(PyGetItem(issue, "issue_type"), LAMBDA type :
        IF type \in {JStr("non_unique_id"), JStr("high_null_rate")}
        THEN Bind(PyGetItem(issue, "column"), LAMBDA column :
                  Ok(<<TestDict(column,
                                IF type = JStr("non_unique_id")
                                THEN "unique" ELSE "not_null",
                                EmptyDict)>>))
        ELSE Ok(<<>>))

\* first loop of _generate_fallback, one iteration
FallbackOne(issue) ==
    Bind(PyGetItem(issue, "issue_type"), LAMBDA type :
        IF type = JStr("non_unique_id")
        THEN Bind(PyGetItem(issue, "column"), LAMBDA column :
                  Ok(<<TestDict(column, "unique", EmptyDict)>>))
        ELSE Ok(<<>>))

RECURSIVE FallbackIssueTestsFrom(_, _, _)
FallbackIssueTestsFrom(items, i, tests) ==
    IF i > Len(items) THEN Ok(tests)
    ELSE Bind(FallbackOne(items[i]), LAMBDA one :
              FallbackIssueTestsFrom(items, i + 1, tests \o one))

RECURSIVE NotNullTestsFrom(_, _)
NotNullTestsFrom(columns, i) ==
    IF i > Len(columns) THEN <<>>
    ELSE (IF columns[i].null_pct < LowNullCutoff
          THEN <<TestDict(JStr(columns[i].name), "not_null", EmptyDict)>>
          ELSE <<>>) \o NotNullTestsFrom(columns, i + 1)

\* TestGeneratorAgent._generate_fallback: the dict returned, or the exception raised
_generate_fallback(prof, iss) ==
    Bind(PyIter(iss), LAMBDA items :
    Bind(FallbackIssueTestsFrom(items, 1, <<>>), LAMBDA tests :
        Ok(JObj([description |-> JStr(FallbackDescription),
                 tests |-> JArr(tests \o NotNullTestsFrom(prof.columns, 1))]))))

\* TestGeneratorAgent.generate
generate(self, prof, iss, resp) ==
    Tiers(self.client, _generate_with_llm(prof, iss, resp),
          _generate_fallback(prof, iss), resp)

----------------------------------------------------------------------------
(* YamlGenerator *)

\* the rendering as it would be if an empty config were written out too
_format_test_always_mapping(test) ==
    Bind(PyGetItem(test, "test_type"), LAMBDA test_type :
    Bind(PyGet(test, "config", EmptyDict), LAMBDA config :
        Ok(JObj(test_type.str :> config))))

\* YamlGenerator._format_test: the bare test_type, or {test_type: config}
_format_test(test) ==
    Bind(PyGetItem(test, "test_type"), LAMBDA test_type :
    Bind(PyGet(test, "config", EmptyDict), LAMBDA config :
        IF ~PyTruthy(config) THEN Ok(test_type)
        ELSE IF test_type.kind = "str" THEN Ok(JObj(test_type.str :> config))
        ELSE IF PyHashable(test_type)
             THEN Ok([kind |-> "map", key |-> test_type, val |-> config])
        ELSE Raise("TypeError")))

\* the grouping as it would be if a new column were put in front of the
\* known ones
AddToGroup_new_first(groups, col, test) ==
    IF \E k \in 1..Len(groups) : groups[k].key = col
    THEN [k \in 1..Len(groups) |->
            IF groups[k].key = col
            THEN [key |-> col, tests |-> Append(groups[k].tests, test)]
            ELSE groups[k]]
    ELSE <<[key |-> col, tests |-> <<test>>]>> \o groups

\* tests_by_column[col].append(test), creating the entry when col is new;
\* tests_by_column is kept as the sequence of its items in insertion order
AddToGroup(groups, col, test) ==
    IF \E k \in 1..Len(groups) : groups[k].key = col
    THEN [k \in 1..Len(groups) |->
            IF groups[k].key = col
            THEN [key |-> col, tests |-> Append(groups[k].tests, test)]
            ELSE groups[k]]
    ELSE Append(groups, [key |-> col, tests |-> <<test>>])

\* "Group tests by column"
RECURSIVE GroupFrom(_, _, _)
GroupFrom(items, i, groups) ==
    IF i > Len(items) THEN Ok(groups)
    ELSE Bind(PyGetItem(items[i], "column"), LAMBDA col :
              IF ~PyHashable(col) THEN Raise("TypeError")
              ELSE GroupFrom(items, i + 1, AddToGroup(groups, col, items[i])))

\* the inner loop of "Build dbt YAML structure": column_def["tests"]
RECURSIVE FormatFrom(_, _, _)
FormatFrom(col_tests, i, out) ==
    IF i > Len(col_tests) THEN Ok(out)
    ELSE Bind(_format_test(col_tests[i]), LAMBDA test_def :
              FormatFrom(col_tests, i + 1, Append(out, test_def)))

\* the outer loop of "Build dbt YAML structure": columns
RECURSIVE ColumnDefsFrom(_, _, _)
ColumnDefsFrom(groups, k, columns) ==
    IF k > Len(groups) THEN Ok(columns)
    ELSE Bind(FormatFrom(groups[k].tests, 1, <<>>), LAMBDA col_tests :
              ColumnDefsFrom(groups, k + 1,
                  Append(columns, JObj([name |-> groups[k].key,
                                        tests |-> JArr(col_tests)]))))

\* YamlGenerator.generate: the structure dumped (yaml.dump with
\* sort_keys=False writes it in this order), or the exception raised
YamlGenerator_generate(table_name, tests) ==
    Bind(PyIter(tests), LAMBDA items :
    Bind(GroupFrom(items, 1, <<>>), LAMBDA groups :
    Bind(ColumnDefsFrom(groups, 1, <<>>), LAMBDA columns :
        Ok(JObj([version |-> JNum(2),
                 models |-> JArr(<<JObj([name |-> JStr(table_name),
                                         columns |-> JArr(columns)])>>)])))))

----------------------------------------------------------------------------
(* ProfilerAgent

   A DataFrame is [nrows, columns], each column [name, dtype, values] with
   nrows values.  A value is JNum(n), JStr(s), JBool(b), JTime(t) or JNull
   (NaN / None / NaT).  A Python float is kept as the exact fraction it is
   computed from, in lowest terms; a standard deviation as the square root
   of such a fraction. *)

JBool(b) == [kind |-> "bool", bool |-> b]
JTime(t) == [kind |-> "time", time |-> t]

Abs(n) == IF n < 0 THEN -n ELSE n

RECURSIVE GCD(_, _)
GCD(a, b) == IF b = 0 THEN a ELSE GCD(b, a % b)

\* float(n / d), d > 0
Frac(n, d) == [num |-> n \div GCD(Abs(n), d), den |-> d \div GCD(Abs(n), d)]

\* math.sqrt of a fraction
Sqrt(f) == [root_of |-> f]

\* series.isna()
IsNa(v) == v.kind = "null"

\* series.dropna()
DropNa(values) == SelectSeq(values, LAMBDA v : ~IsNa(v))

\* series.unique(): the distinct values in order of first appearance
RECURSIVE UniqueFrom(_, _, _)
UniqueFrom(values, i, seen) ==
    IF i > Len(values) THEN seen
    ELSE UniqueFrom(values, i + 1,
             IF \E k \in 1..Len(seen) : seen[k] = values[i]
             THEN seen ELSE Append(seen, values[i]))

Unique(values) == UniqueFrom(values, 1, <<>>)

\* nunique as it would be with nulls counted (dropna=False)
NUnique_with_nulls(values) == Len(Unique(values))

\* series.nunique(): nulls are not counted
NUnique(values) == Len(Unique(DropNa(values)))

\* pd.api.types.is_numeric_dtype: numbers and booleans
is_numeric_dtype(dtype) == dtype \in {"int64", "float64", "bool"}

\* the number a value of a numeric dtype stands for (True is 1, False is 0)
NumberOf(v) == IF v.kind = "bool" THEN (IF v.bool THEN 1 ELSE 0) ELSE v.num

RECURSIVE SumFrom(_, _)
SumFrom(numbers, i) ==
    IF i > Len(numbers) THEN 0 ELSE numbers[i] + SumFrom(numbers, i + 1)

\* the k-th smallest of a sequence of numbers, k in 1..Len
KthSmallest(numbers, k) ==
    CHOOSE x \in {numbers[i] : i \in 1..Len(numbers)} :
        /\ Cardinality({i \in 1..Len(numbers) : numbers[i] < x}) < k
        /\ Cardinality({i \in 1..Len(numbers) : numbers[i] <= x}) >= k

\* non_null.median()
Median(numbers) ==
    IF Len(numbers) % 2 = 1
    THEN Frac(KthSmallest(numbers, (Len(numbers) + 1) \div 2), 1)
    ELSE Frac(KthSmallest(numbers, Len(numbers) \div 2)
              + KthSmallest(numbers, Len(numbers) \div 2 + 1), 2)

\* non_null.std(): the sample standard deviation (ddof = 1), Len > 1
Std(numbers) ==
    Sqrt(Frac(Len(numbers) * SumFrom([i \in 1..Len(numbers) |-> numbers[i] * numbers[i]], 1)
                  - SumFrom(numbers, 1) * SumFrom(numbers, 1),
              Len(numbers) * (Len(numbers) - 1)))

\* the numeric block as it would be without the guard on the number of
\* values: pandas gives NaN for the standard deviation of one value
NumericBlock_unguarded(numbers) ==
    [min    |-> Frac(KthSmallest(numbers, 1), 1),
     max    |-> Frac(KthSmallest(numbers, Len(numbers)), 1),
     mean   |-> Frac(SumFrom(numbers, 1), Len(numbers)),
     median |-> Median(numbers),
     std    |-> IF Len(numbers) > 1 THEN Std(numbers) ELSE [nan |-> TRUE]]

\* "Add min/max for numeric columns": the keys added for the non-null numbers
NumericBlock(numbers) ==
    [min    |-> Frac(KthSmallest(numbers, 1), 1),
     max    |-> Frac(KthSmallest(numbers, Len(numbers)), 1),
     mean   |-> Frac(SumFrom(numbers, 1), Len(numbers)),
     median |-> Median(numbers),
     std    |-> IF Len(numbers) > 1 THEN Std(numbers) ELSE Sqrt(Frac(0, 1))]

MaxExamples == 5

Min2(a, b) == IF a < b THEN a ELSE b

\* ProfilerAgent._convert_to_native_type: a timestamp becomes its text
_convert_to_native_type(val) ==
    CASE val.kind = "null" -> JNull
      [] val.kind = "time" -> [kind |-> "str", time |-> val.time]
      [] OTHER             -> val

\* the examples as they would be if the first non-null values were taken
\* without removing repeats
ExampleValues_first_rows(values) ==
    [k \in 1..Min2(MaxExamples, Len(DropNa(values))) |->
        _convert_to_native_type(DropNa(values)[k])]

\* "Add example values"
ExampleValues(values) ==
    [k \in 1..Min2(MaxExamples, Len(Unique(DropNa(values)))) |->
        _convert_to_native_type(Unique(DropNa(values))[k])]

\* the number of nulls of a column
NullCount(values) == Len(values) - Len(DropNa(values))

\* the non-null values of a column, as numbers
NumbersOf(values) ==
    [i \in 1..Len(DropNa(values)) |-> NumberOf(DropNa(values)[i])]

\* ProfilerAgent._profile_column
_profile_column(frame, col) ==
    [name           |-> col.name,
     dtype          |-> col.dtype,
     null_count     |-> NullCount(col.values),
     null_pct       |-> IF frame.nrows > 0
                        THEN Frac(NullCount(col.values), frame.nrows)
                        ELSE Frac(0, 1),
     distinct_count |-> NUnique(col.values),
     distinct_pct   |-> IF frame.nrows > 0
                        THEN Frac(NUnique(col.values), frame.nrows)
                        ELSE Frac(0, 1)]
    @@ (IF is_numeric_dtype(col.dtype) /\ Len(DropNa(col.values)) > 0
        THEN NumericBlock(NumbersOf(col.values))
        ELSE [k \in {} |-> 0])
    @@ [example_values |-> ExampleValues(col.values)]

\* ProfilerAgent.profile
ProfilerAgent_profile(frame, table_name) ==
    [table_name   |-> table_name,
     row_count    |-> frame.nrows,
     column_count |-> Len(frame.columns),
     columns      |-> [i \in 1..Len(frame.columns) |->
                          _profile_column(frame, frame.columns[i])]]

----------------------------------------------------------------------------
(* TableLoaderAgent

   A file is [exists, suffix, content, table]: content is "table" when the
   reader of its format can read it (and yields `table`), "empty" for a
   file without data, "malformed" for data the reader cannot parse and
   "unreadable" for any other failure of the read. *)

EmptyFrame == [nrows |-> 0, columns |-> <<>>]

FileNotFoundError == "FileNotFoundError: File not found"
UnsupportedFormatError == "ValueError: Unsupported file format"
EmptyFileError    == "ValueError: File is empty"
ParseFileError    == "ValueError: Failed to parse file"
LoadingError      == "Exception: Error loading file"

\* pd.read_csv: the table, or pd.errors.EmptyDataError, pd.errors.ParserError
\* or another exception
read_csv(f) ==
    CASE f.content = "table"     -> Ok(f.table)
      [] f.content = "empty"     -> Raise("EmptyDataError")
      [] f.content = "malformed" -> Raise("ParserError")
      [] OTHER                   -> Raise("OSError")

\* pd.read_parquet: the table, or the exception of the parquet engine, which
\* is none of the pandas errors
read_parquet(f) ==
    IF f.content = "table" THEN Ok(f.table) ELSE Raise("ArrowInvalid")

\* the except clauses of load, applied to what the try block did: the
\* ValueError raised in the try block for an unknown suffix is caught by the
\* last clause like any other exception
LoadExcept(r) ==
    CASE r.ok                     -> r
      [] r.exc = "EmptyDataError" -> Raise(EmptyFileError)
      [] r.exc = "ParserError"    -> Raise(ParseFileError)
      [] OTHER                    -> Raise(LoadingError)

\* the try block of load: the table and the format, or what was raised
LoadTry(f, suffix) ==
    IF suffix = Chars(".csv")
    THEN Bind(read_csv(f), LAMBDA t : Ok([frame |-> t, file_format |-> "csv"]))
    ELSE IF suffix \in {Chars(".parquet"), Chars(".pq")}
    THEN Bind(read_parquet(f), LAMBDA t : Ok([frame |-> t, file_format |-> "parquet"]))
    ELSE Raise(UnsupportedFormatError)

\* "Build metadata"
WithMetadata(table_name, r) ==
    Bind(r, LAMBDA got :
        Ok([frame |-> got.frame,
            metadata |-> [table_name   |-> table_name,
                          file_format  |-> got.file_format,
                          row_count    |-> got.frame.nrows,
                          column_count |-> Len(got.frame.columns),
                          columns      |-> [i \in 1..Len(got.frame.columns) |->
                                               got.frame.columns[i].name]]]))

\* TableLoaderAgent.load: (df, metadata), or the exception raised
load(f, table_name) ==
    IF ~f.exists THEN Raise(FileNotFoundError)
    ELSE WithMetadata(table_name, LoadExcept(LoadTry(f, Lower(Chars(f.suffix)))))

----------------------------------------------------------------------------
(* Construction *)

\* AnomalyDetectorAgent.__init__
AnomalyDetectorAgent(env, high_null_threshold, constant_threshold, id_uniqueness_threshold, key) ==
    LET resolved == IF key # "" THEN key ELSE env.OPENAI_API_KEY IN
    [high_null_threshold     |-> high_null_threshold,
     constant_threshold      |-> constant_threshold,
     id_uniqueness_threshold |-> id_uniqueness_threshold,
     api_key                 |-> resolved,
     client                  |-> env.OPENAI_AVAILABLE /\ resolved # ""]

\* TestGeneratorAgent.__init__
TestGeneratorAgent(env, key) ==
    LET resolved == IF key # "" THEN key ELSE env.OPENAI_API_KEY IN
    [api_key |-> resolved,
     client  |-> env.OPENAI_AVAILABLE /\ resolved # ""]

\* click's resolution of --api-key with envvar="OPENAI_API_KEY"
ResolveOption(flag, env) == IF flag # "" THEN flag ELSE env.OPENAI_API_KEY

----------------------------------------------------------------------------
(* Inputs *)

\* count / row_count of a table of 200 rows, in thousandths
Pct(count) == (count * 1000) \div 200

\* A ColumnProfile of a table of 200 rows
Column(name, dtype, nulls, distinct) ==
    [name |-> name, dtype |-> dtype,
     null_count |-> nulls, null_pct |-> Pct(nulls),
     distinct_count |-> distinct, distinct_pct |-> Pct(distinct)]

\* ... with the numeric block; only `min` is read by the stages modelled
NumericColumn(name, dtype, nulls, distinct, lo) ==
    LET hi == IF distinct = 1 THEN lo ELSE lo + 10 IN
    Column(name, dtype, nulls, distinct) @@
    [min |-> lo, max |-> hi, mean |-> (lo + hi) \div 2,
     median |-> (lo + hi) \div 2, std |-> IF distinct = 1 THEN 0 ELSE 3]

TableProfile(columns) ==
    [table_name |-> "orders", row_count |-> 200,
     column_count |-> Len(columns), columns |-> columns]

\* sequences over S of length at most n, without repeated column names
RECURSIVE ColumnSeqs(_, _)
ColumnSeqs(S, n) ==
    IF n = 0 THEN {<<>>}
    ELSE LET shorter == ColumnSeqs(S, n - 1) IN
         shorter \cup
         {Append(q, c) : q \in {r \in shorter : Len(r) = n - 1},
                         c \in S} 

DistinctNames(q) == \A i, j \in 1..Len(q) : i # j => q[i].name # q[j].name

\* sequences over S of length at most n
RECURSIVE SeqsUpTo(_, _)
SeqsUpTo(S, n) ==
    IF n = 0 THEN {<<>>}
    ELSE LET shorter == SeqsUpTo(S, n - 1) IN
         shorter \cup {Append(q, e) : q \in {r \in shorter : Len(r) = n - 1}, e \in S}

RunColumns ==
    {NumericColumn("user_id", "int64", 0, 160, 1),
     NumericColumn("amount", "float64", 90, 100, -5),
     Column("name", "object", 4, 1)}

RunProfiles ==
    {TableProfile(q) :
        q \in {r \in ColumnSeqs(RunColumns, MaxCols) : Len(r) > 0 /\ DistinctNames(r)}}

\* an issue as the backend writes it
LlmIssue(column, issue_type) ==
    JObj([column |-> JStr(column), issue_type |-> JStr(issue_type),
          severity |-> JStr("error"), priority |-> JStr("HIGH"),
          details |-> JStr("details"), value |-> JNum(800)])

Without(d, keys) == JObj([k \in DOMAIN d.obj \ keys |-> d.obj[k]])

LlmIssuePool ==
    {LlmIssue("user_id", "non_unique_id"),
     LlmIssue("foo", "non_unique_id"),
     Without(LlmIssue("amount", "suspicious_distribution"), {"issue_type"}),
     Without(LlmIssue("user_id", "non_unique_id"), {"severity", "details"}),
     JNum(5)}

DetectResponses ==
    {CallRaises, NotJson,
     JsonText(JNull), JsonText(JNum(5)), JsonText(JStr("x")), JsonText(JArr(<<>>)),
     JsonText(EmptyDict),
     JsonText(JObj([summary |-> JStr("x")])),
     JsonText(JObj([issues |-> JNull])),
     JsonText(JObj([issues |-> JNum(5)])),
     JsonText(JObj([issues |-> JStr("x")]))}
    \cup {JsonText(JObj([issues |-> JArr(q)])) : q \in SeqsUpTo(LlmIssuePool, MaxIssues)}

LlmTest(column, test_type) ==
    JObj([column |-> JStr(column), test_type |-> JStr(test_type)])

LlmTestPool ==
    {TestDict(JStr("user_id"), "unique", EmptyDict),
     TestDict(JStr("amount"), "expect_column_values_to_be_between",
              JObj([min_value |-> JNum(0)])),
     LlmTest("name", "not_null"),
     LlmTest("foo", "not_null"),
     LlmTest("user_id", "custom_sql"),
     JObj([column |-> JStr("user_id")]),
     JNum(5),
     JObj([column |-> JArr(<<JStr("user_id")>>), test_type |-> JStr("unique")])}

LlmDescription == JStr("Test strategy")

GenerateResponses ==
    {CallRaises, NotJson,
     JsonText(JNull), JsonText(JArr(<<>>)),
     JsonText(EmptyDict),
     JsonText(JObj([description |-> LlmDescription])),
     JsonText(JObj([tests |-> JArr(<<LlmTest("name", "not_null")>>)])),
     JsonText(JObj([description |-> LlmDescription, tests |-> JNull])),
     JsonText(JObj([description |-> LlmDescription, tests |-> JNum(5)])),
     JsonText(JObj([description |-> LlmDescription, tests |-> JStr("x")])),
     JsonText(JObj([description |-> LlmDescription, tests |-> EmptyDict]))}
    \cup {JsonText(JObj([description |-> LlmDescription, tests |-> JArr(q)])) :
             q \in SeqsUpTo(LlmTestPool, MaxTests)}

----------------------------------------------------------------------------
(* The run: cli.run from the profile on *)

NotReturned == Raise("not returned")

\* the run starts from a profile: no file is read
NoFile == [exists |-> FALSE, suffix |-> "", content |-> "none", table |-> EmptyFrame]

\* no stage has been invoked a second time
NotAgain == [pc |-> "none"]

InitRun(env, flag, prof, det) ==
    /\ environ = env
    /\ api_key = ResolveOption(flag, env)
    /\ profile = prof
    /\ detector = det
    /\ generator = TestGeneratorAgent(env, ResolveOption(flag, env))
    /\ pc = "detect"
    /\ detResponse = NoCall
    /\ genResponse = NoCall
    /\ detCalls = 0
    /\ genCalls = 0
    /\ detPath = <<>>
    /\ genPath = <<>>
    /\ issues = NotReturned
    /\ suggestions = NotReturned
    /\ document = NotReturned
    /\ file = NoFile
    /\ df = NotReturned
    /\ again = NotAgain

Environments ==
    [OPENAI_API_KEY : {"", "sk-env"}, OPENAI_AVAILABLE : BOOLEAN]

\* the run as it would be if the detector were constructed with the option too
Init_key_to_detector ==
    \E env \in Environments, flag \in {"", "sk-cli"}, prof \in RunProfiles :
        InitRun(env, flag, prof,
                AnomalyDetectorAgent(env, DefaultHighNullThreshold,
                                     DefaultConstantThreshold,
                                     DefaultIdUniquenessThreshold,
                                     ResolveOption(flag, env)))

Init ==
    \E env \in Environments, flag \in {"", "sk-cli"}, prof \in RunProfiles :
        InitRun(env, flag, prof,
                AnomalyDetectorAgent(env, DefaultHighNullThreshold,
                                     DefaultConstantThreshold,
                                     DefaultIdUniquenessThreshold, ""))

\* len(v)
PyLen(v) ==
    IF v.kind \in {"arr", "str", "obj"} THEN Ok(0) ELSE Raise("TypeError")

\* cli.run, "Detect anomalies": d is what detect did; then len(issues) is printed
DetectStep(d) ==
    /\ pc = "detect"
    /\ issues' = d.ret
    /\ detCalls' = d.calls
    /\ detPath' = d.path
    /\ detResponse' = d.resp
    /\ pc' = IF Bind(d.ret, PyLen).ok THEN "generate" ELSE "aborted"
    /\ UNCHANGED <<environ, api_key, profile, detector, generator,
                   genResponse, genCalls, genPath, suggestions, document,
                   file, df, again>>

DetectNoBackend ==
    /\ ~detector.client
    /\ DetectStep(detect(detector, profile, NoCall))

DetectWithBackend ==
    /\ detector.client
    /\ \E resp \in DetectResponses : DetectStep(detect(detector, profile, resp))

\* cli.run, "Generate tests": g is what generate did
GenerateStep(g) ==
    /\ pc = "generate"
    /\ suggestions' = g.ret
    /\ genCalls' = g.calls
    /\ genPath' = g.path
    /\ genResponse' = g.resp
    /\ pc' = IF g.ret.ok THEN "yaml" ELSE "aborted"
    /\ UNCHANGED <<environ, api_key, profile, detector, generator,
                   detResponse, detCalls, detPath, issues, document,
                   file, df, again>>

GenerateNoBackend ==
    /\ ~generator.client
    /\ GenerateStep(generate(generator, profile, issues.val, NoCall))

GenerateWithBackend ==
    /\ generator.client
    /\ \E resp \in GenerateResponses :
           GenerateStep(generate(generator, profile, issues.val, resp))

\* cli.run, "Generate YAML": y is what YamlGenerator.generate did
YamlStep(y) ==
    /\ pc = "yaml"
    /\ document' = y
    /\ pc' = IF y.ok THEN "done" ELSE "aborted"
    /\ UNCHANGED <<environ, api_key, profile, detector, generator,
                   detResponse, genResponse, detCalls, genCalls, detPath, genPath,
                   issues, suggestions, file, df, again>>

GenerateYaml ==
    YamlStep(Bind(PyGet(suggestions.val, "tests", JArr(<<>>)), LAMBDA tests :
                  YamlGenerator_generate(profile.table_name, tests)))

Next ==
    \/ DetectNoBackend
    \/ DetectWithBackend
    \/ GenerateNoBackend
    \/ GenerateWithBackend
    \/ GenerateYaml

Spec == Init /\ [][Next]_vars

----------------------------------------------------------------------------
(* The run with no backend configured, over a wide range of profiles and
   detector thresholds *)

RuleNames ==
    {"user_id", "ID", "Id_No", "Key", "identifier", "paid", "name",
     "amount", "QTY", "num_id"}

\* <<null_count, distinct_count>> of a column of 200 rows
RuleStats ==
    {<<0, 200>>, <<0, 160>>, <<4, 1>>, <<8, 192>>, <<10, 190>>,
     <<60, 2>>, <<62, 138>>, <<90, 100>>, <<4, 196>>, <<9, 191>>}

RuleMins == {-5, 0, 3}

RuleColumns ==
    {Column(n, "object", st[1], st[2]) : n \in RuleNames, st \in RuleStats}
    \cup {NumericColumn(n, "float64", st[1], st[2], lo) :
              n \in RuleNames, st \in RuleStats, lo \in RuleMins}
    \cup {Column(n, "float64", 200, 0) : n \in RuleNames}

RuleProfiles ==
    {TableProfile(<<c>>) : c \in RuleColumns} \cup RunProfiles

RuleDetectors ==
    {AnomalyDetectorAgent([OPENAI_API_KEY |-> "", OPENAI_AVAILABLE |-> TRUE],
                          h, c, u, "") :
        h \in {DefaultHighNullThreshold, 40, LowNullCutoff},
        c \in {DefaultConstantThreshold, 2},
        u \in {DefaultIdUniquenessThreshold, 800}}

InitRules ==
    \E prof \in RuleProfiles, det \in RuleDetectors :
        InitRun([OPENAI_API_KEY |-> "", OPENAI_AVAILABLE |-> TRUE], "", prof, det)

NextRules ==
    \/ DetectNoBackend
    \/ GenerateNoBackend
    \/ GenerateYaml

SpecRules == InitRules /\ [][NextRules]_vars

----------------------------------------------------------------------------
(* The serializer alone, over sequences of tests as generate returns them
   (validated or fallback tests) and tests without `config` *)

MaxYamlTests == 3

YamlTestPool ==
    {TestDict(JStr("id"), "unique", EmptyDict),
     TestDict(JStr("id"), "not_null", EmptyDict),
     TestDict(JStr("name"), "not_null", EmptyDict),
     TestDict(JStr("amount"), "expect_column_values_to_be_between",
              JObj([min_value |-> JNum(0)])),
     TestDict(JStr("name"), "accepted_values",
              JObj([values |-> JArr(<<JStr("x")>>)])),
     LlmTest("amount", "not_null")}

YamlProfile ==
    TableProfile(<<Column("id", "int64", 0, 200), Column("name", "object", 0, 2),
                   NumericColumn("amount", "float64", 0, 100, 3)>>)

InitYaml ==
    \E q \in SeqsUpTo(YamlTestPool, MaxYamlTests) :
        /\ environ = [OPENAI_API_KEY |-> "", OPENAI_AVAILABLE |-> TRUE]
        /\ api_key = ""
        /\ profile = YamlProfile
        /\ detector = AnomalyDetectorAgent(environ, DefaultHighNullThreshold,
                                           DefaultConstantThreshold,
                                           DefaultIdUniquenessThreshold, "")
        /\ generator = TestGeneratorAgent(environ, "")
        /\ pc = "yaml"
        /\ detResponse = NoCall
        /\ genResponse = NoCall
        /\ detCalls = 0
        /\ genCalls = 0
        /\ detPath = <<"fallback">>
        /\ genPath = <<"fallback">>
        /\ issues = Ok(JArr(<<>>))
        /\ suggestions = Ok(JObj([description |-> LlmDescription, tests |-> JArr(q)]))
        /\ document = NotReturned
        /\ file = NoFile
        /\ df = NotReturned
        /\ again = NotAgain

NextYaml == GenerateYaml

SpecYaml == InitYaml /\ [][NextYaml]_vars

----------------------------------------------------------------------------
(* The `profile` command: load the file, profile the table *)

MaxRows == 3

Dtypes == {"int64", "float64", "bool", "object", "datetime64[ns]"}

\* the values a column of a dtype can hold: an int64 or bool column has no
\* null, a float64 column holds NaN for a missing number
ValuesOf(dtype) ==
    CASE dtype = "int64"   -> {JNum(-1), JNum(0), JNum(2)}
      [] dtype = "float64" -> {JNum(-1), JNum(0), JNum(2), JNull}
      [] dtype = "bool"    -> {JBool(TRUE), JBool(FALSE)}
      [] dtype = "object"  -> {JStr("a"), JStr("b"), JNull}
      [] OTHER             -> {JTime(1), JNull}

DataColumn(name, dtype, values) == [name |-> name, dtype |-> dtype, values |-> values]

ColumnsOfLength(n) ==
    UNION {{DataColumn("x", d, v) : v \in [1..n -> ValuesOf(d)]} : d \in Dtypes}

DataFrame(columns) ==
    [nrows |-> IF Len(columns) = 0 THEN 0 ELSE Len(columns[1].values),
     columns |-> columns]

\* every table of one column and at most MaxRows rows
SmallTables ==
    UNION {{DataFrame(<<c>>) : c \in ColumnsOfLength(n)} : n \in 0..MaxRows}

\* tables of two columns, in both column orders
TwoColumnTables ==
    {DataFrame(<<DataColumn("id", "int64", <<JNum(1), JNum(2)>>),
                 DataColumn("name", "object", <<JStr("a"), JNull>>)>>),
     DataFrame(<<DataColumn("name", "object", <<JStr("a"), JNull>>),
                 DataColumn("id", "int64", <<JNum(1), JNum(2)>>)>>)}

\* columns with more distinct values than example_values keeps, with exactly
\* as many, and a constant one
LongTables ==
    {DataFrame(<<DataColumn("x", "float64",
                    <<JNum(3), JNull, JNum(1), JNum(3), JNum(4), JNum(1),
                      JNum(5), JNum(6), JNum(7)>>)>>),
     DataFrame(<<DataColumn("x", "int64",
                    <<JNum(9), JNum(8), JNum(9), JNum(7), JNum(6), JNum(5), JNum(8)>>)>>),
     DataFrame(<<DataColumn("x", "object",
                    <<JStr("f"), JStr("e"), JNull, JStr("d"), JStr("c"),
                      JStr("e"), JStr("b"), JStr("a")>>)>>),
     DataFrame(<<DataColumn("x", "float64",
                    <<JNum(4), JNum(4), JNum(4), JNum(4), JNum(4), JNum(4)>>)>>)}

Tables == SmallTables \cup TwoColumnTables \cup LongTables

Suffixes == {".csv", ".CSV", ".parquet", ".pq", ".txt", ""}

Files ==
    {[exists |-> TRUE, suffix |-> ".csv", content |-> "table", table |-> t] :
        t \in Tables}
    \cup {[exists |-> TRUE, suffix |-> s, content |-> "table", table |-> t] :
             s \in Suffixes, t \in TwoColumnTables}
    \cup {[exists |-> TRUE, suffix |-> s, content |-> c, table |-> EmptyFrame] :
             s \in Suffixes, c \in {"empty", "malformed", "unreadable"}}
    \cup {[exists |-> FALSE, suffix |-> s, content |-> "none", table |-> EmptyFrame] :
             s \in {".csv", ".txt"}}

InitProfile ==
    \E f \in Files :
        /\ environ = [OPENAI_API_KEY |-> "", OPENAI_AVAILABLE |-> TRUE]
        /\ api_key = ""
        /\ profile = NotReturned
        /\ detector = AnomalyDetectorAgent(environ, DefaultHighNullThreshold,
                                           DefaultConstantThreshold,
                                           DefaultIdUniquenessThreshold, "")
        /\ generator = TestGeneratorAgent(environ, "")
        /\ pc = "load"
        /\ detResponse = NoCall
        /\ genResponse = NoCall
        /\ detCalls = 0
        /\ genCalls = 0
        /\ detPath = <<>>
        /\ genPath = <<>>
        /\ issues = NotReturned
        /\ suggestions = NotReturned
        /\ document = NotReturned
        /\ file = f
        /\ df = NotReturned
        /\ again = NotAgain

\* "Load table": click.Path(exists=True) rejects a missing path before the
\* command body runs; otherwise loader.load, whose exception the command
\* turns into click.Abort
LoadStep(r) ==
    /\ pc = "load"
    /\ file.exists
    /\ df' = r
    /\ pc' = IF r.ok THEN "profile" ELSE "aborted"
    /\ UNCHANGED <<environ, api_key, profile, detector, generator,
                   detResponse, genResponse, detCalls, genCalls, detPath, genPath,
                   issues, suggestions, document, file, again>>

Load == LoadStep(load(file, "orders"))

RejectPath ==
    /\ pc = "load"
    /\ ~file.exists
    /\ pc' = "rejected"
    /\ UNCHANGED <<environ, api_key, profile, detector, generator,
                   detResponse, genResponse, detCalls, genCalls, detPath, genPath,
                   issues, suggestions, document, file, df, again>>

\* "Profile table"
Profile ==
    /\ pc = "profile"
    /\ profile' = ProfilerAgent_profile(df.val.frame, "orders")
    /\ pc' = "profiled"
    /\ UNCHANGED <<environ, api_key, detector, generator,
                   detResponse, genResponse, detCalls, genCalls, detPath, genPath,
                   issues, suggestions, document, file, df, again>>

NextProfile ==
    \/ RejectPath
    \/ Load
    \/ Profile

SpecProfile == InitProfile /\ [][NextProfile]_vars

----------------------------------------------------------------------------
(* The deterministic stages invoked a second time: the same agent objects
   are called again with the inputs of their first invocation *)

\* the second invocation as it would go if the detector kept its list of
\* issues between calls and appended to it
DetectAgain_accumulating ==
    /\ pc = "done"
    /\ ~detector.client /\ ~generator.client
    /\ again = NotAgain
    /\ again' = [pc |-> "detected",
                 issues |-> Ok(JArr(issues.val.arr
                                    \o detect(detector, profile, NoCall).ret.val.arr))]
    /\ UNCHANGED <<environ, api_key, profile, detector, generator, pc,
                   detResponse, genResponse, detCalls, genCalls, detPath, genPath,
                   issues, suggestions, document, file, df>>

\* profiler.profile(df, table_name) once more
ProfileAgain ==
    /\ pc = "profiled"
    /\ again = NotAgain
    /\ again' = [pc |-> "profiled",
                 profile |-> ProfilerAgent_profile(df.val.frame, "orders")]
    /\ UNCHANGED <<environ, api_key, profile, detector, generator, pc,
                   detResponse, genResponse, detCalls, genCalls, detPath, genPath,
                   issues, suggestions, document, file, df>>

\* detector.detect(profile_data) once more, no backend configured
DetectAgain ==
    /\ pc = "done"
    /\ ~detector.client /\ ~generator.client
    /\ again = NotAgain
    /\ again' = [pc |-> "detected",
                 issues |-> detect(detector, profile, NoCall).ret]
    /\ UNCHANGED <<environ, api_key, profile, detector, generator, pc,
                   detResponse, genResponse, detCalls, genCalls, detPath, genPath,
                   issues, suggestions, document, file, df>>

\* test_generator.generate(profile_data, issues) once more
GenerateAgain ==
    /\ again.pc = "detected"
    /\ again' = [pc |-> "generated", issues |-> again.issues,
                 suggestions |-> generate(generator, profile, issues.val, NoCall).ret]
    /\ UNCHANGED <<environ, api_key, profile, detector, generator, pc,
                   detResponse, genResponse, detCalls, genCalls, detPath, genPath,
                   issues, suggestions, document, file, df>>

\* yaml_gen.generate(table_name, tests, path) once more
SerializeAgain ==
    /\ again.pc = "generated"
    /\ again' = [pc |-> "serialized", issues |-> again.issues,
                 suggestions |-> again.suggestions,
                 document |-> Bind(PyGet(suggestions.val, "tests", JArr(<<>>)),
                                   LAMBDA tests :
                                       YamlGenerator_generate(profile.table_name, tests))]
    /\ UNCHANGED <<environ, api_key, profile, detector, generator, pc,
                   detResponse, genResponse, detCalls, genCalls, detPath, genPath,
                   issues, suggestions, document, file, df>>

InitDeterministic == InitRules \/ InitProfile

NextDeterministic ==
    \/ RejectPath
    \/ Load
    \/ Profile
    \/ ProfileAgain
    \/ DetectNoBackend
    \/ GenerateNoBackend
    \/ GenerateYaml
    \/ DetectAgain
    \/ GenerateAgain
    \/ SerializeAgain

SpecDeterministic == InitDeterministic /\ [][NextDeterministic]_vars

TypeOK ==
    /\ pc \in {"load", "rejected", "profile", "profiled", "detect", "generate",
              "yaml", "done", "aborted"}
    /\ detCalls \in 0..1
    /\ genCalls \in 0..1

----------------------------------------------------------------------------
(* Properties *)

DetectReturned == pc # "detect"
GenerateReturned == suggestions # NotReturned

IsObject(resp) == resp.call = "json" /\ resp.val.kind = "obj"
HasKey(resp, key) == IsObject(resp) /\ key \in DOMAIN resp.val.obj
HasArray(resp, key) == HasKey(resp, key) /\ resp.val.obj[key].kind = "arr"

\* the failures C1 lists: the call raises, the text is not JSON, the JSON is
\* not an object, the object has no `issues` key
DetectBackendFailed(resp) ==
    \/ resp.call \in {"raises", "text"}
    \/ resp.call = "json" /\ ~HasKey(resp, "issues")

\* C1: with a backend configured, whenever the backend outcome is a failure
\* (call raises, unparseable text, JSON that is not an object, object without
\* `issues`), detect returns exactly the list of the rule engine.
C1_FailureGivesRuleEngineList ==
    (DetectReturned /\ detector.client /\ DetectBackendFailed(detResponse))
        => issues = Ok(_detect_fallback(detector, profile))

\* C2: with a backend configured, a response object that lacks `description`
\* or `tests`, or whose `tests` is not an array, makes generate return the
\* deterministic fallback result.
C2_PartialResponseGivesFallback ==
    (/\ GenerateReturned
     /\ generator.client
     /\ IsObject(genResponse)
     /\ ~(HasKey(genResponse, "description") /\ HasArray(genResponse, "tests")))
        => suggestions = _generate_fallback(profile, issues.val)

\* C3: whatever the backend does in either stage, detect returns a result
\* and the generate that follows returns a result: neither raises.
C3_NoStageRaises ==
    /\ issues = NotReturned \/ issues.ok
    /\ suggestions = NotReturned \/ suggestions.ok

Ran(path, which) == \E i \in 1..Len(path) : path[i] = which

\* C4: an invocation of detect, and of generate, calls the backend zero times
\* when none is configured and exactly once otherwise, and runs the
\* deterministic path only when none is configured or that one call failed
\* (the generative path raised after the call was made).
C4_ExactlyOneCallWhenConfigured ==
    /\ DetectReturned =>
        /\ detCalls = (IF detector.client THEN 1 ELSE 0)
        /\ Ran(detPath, "fallback") =>
               (~detector.client \/ (detCalls = 1 /\ detPath = <<"llm", "fallback">>))
    /\ GenerateReturned =>
        /\ genCalls = (IF generator.client THEN 1 ELSE 0)
        /\ Ran(genPath, "fallback") =>
               (~generator.client \/ (genCalls = 1 /\ genPath = <<"llm", "fallback">>))

\* C5: when the backend returns a JSON object with an `issues` array, detect
\* returns that array unchanged, and only the generative path ran.
C5_IssuesArrayReturnedVerbatim ==
    (DetectReturned /\ detector.client /\ HasArray(detResponse, "issues"))
        => /\ issues = Ok(detResponse.val.obj.issues)
           /\ detPath = <<"llm">>

\* C5 happens: a backend array holding a well-formed entry and an entry that
\* is not even a mapping was returned, for a profile the rule engine has
\* issues for.
C5_Witness ==
    /\ DetectReturned
    /\ HasArray(detResponse, "issues")
    /\ detResponse.val.obj.issues.arr = <<LlmIssue("foo", "non_unique_id"), JNum(5)>>
    /\ issues = Ok(JArr(<<LlmIssue("foo", "non_unique_id"), JNum(5)>>))
    /\ Len(_detect_fallback(detector, profile).arr) > 0

\* what C6 says a candidate must be to be kept
Kept(c, prof) ==
    /\ c.kind = "obj"
    /\ {"column", "test_type"} \subseteq DOMAIN c.obj
    /\ c.obj.column \in {JStr(n) : n \in ColumnNames(prof)}
    /\ c.obj.test_type \in {JStr(t) : t \in valid_test_types}

RECURSIVE KeptFrom(_, _, _)
KeptFrom(q, i, prof) ==
    IF i > Len(q) THEN <<>>
    ELSE (IF Kept(q[i], prof)
          THEN <<IF "config" \in DOMAIN q[i].obj THEN q[i]
                 ELSE JObj(q[i].obj @@ [config |-> EmptyDict])>>
          ELSE <<>>) \o KeptFrom(q, i + 1, prof)

\* C6: the validation filter returns exactly the candidates that have
\* `column` and `test_type`, name a column of the profile and an allowed
\* type, in their original order, each with a config ({} when it had none).
C6_FilterReturnsExactlyTheValid ==
    (GenerateReturned /\ genCalls = 1 /\ HasArray(genResponse, "tests"))
        => _validate_tests(genResponse.val.obj.tests, profile)
               = Ok(JArr(KeptFrom(genResponse.val.obj.tests.arr, 1, profile)))

\* C7: a malformed candidate only removes itself: generate returns the
\* generative description with every candidate that passes the filter.
C7_MalformedCandidateOnlyDropped ==
    (/\ GenerateReturned
     /\ genCalls = 1
     /\ HasKey(genResponse, "description")
     /\ HasArray(genResponse, "tests"))
        => suggestions =
               Ok(JObj([description |-> genResponse.val.obj.description,
                        tests |-> JArr(KeptFrom(genResponse.val.obj.tests.arr,
                                                1, profile))]))

\* C8: every test in the result of generate names a column of the profile
\* and an allowed test type, on every path through the run.
C8_TestsNameProfileColumns ==
    (GenerateReturned /\ suggestions.ok) =>
        \A i \in 1..Len(suggestions.val.obj.tests.arr) :
            /\ suggestions.val.obj.tests.arr[i].obj.column
                   \in {JStr(n) : n \in ColumnNames(profile)}
            /\ suggestions.val.obj.tests.arr[i].obj.test_type
                   \in {JStr(t) : t \in valid_test_types}

\* the names of the profiles checked that match the ID heuristic of C9 (the
\* lower-cased name contains "_id", "id_", "identifier" or "key", or is "id")
\* and those that match the amount/count heuristic
IdNames == {"user_id", "ID", "Id_No", "Key", "identifier", "num_id"}
AmountNames == {"amount", "QTY", "num_id"}

RuleIssueTypes ==
    {"high_null_rate", "non_unique_id", "constant_column", "negative_values"}

\* how many issues of one type the list holds for one column
IssueCount(list, name, type) ==
    Cardinality({k \in 1..Len(list) :
        list[k].obj.column = JStr(name) /\ list[k].obj.issue_type = JStr(type)})

OneIff(cond) == IF cond THEN 1 ELSE 0

\* C9: the rule engine emits, for each column, exactly one issue of each of the
\* four types whose condition holds and none whose condition fails, each
\* condition on its own, and nothing else.
C9_RuleChecksIndependent ==
    (DetectReturned /\ ~detector.client) =>
        /\ \A i \in 1..Len(profile.columns) :
            /\ IssueCount(issues.val.arr, profile.columns[i].name, "high_null_rate")
                 = OneIff(profile.columns[i].null_pct > detector.high_null_threshold)
            /\ IssueCount(issues.val.arr, profile.columns[i].name, "non_unique_id")
                 = OneIff(/\ profile.columns[i].name \in IdNames
                          /\ profile.columns[i].distinct_pct
                                 < detector.id_uniqueness_threshold)
            /\ IssueCount(issues.val.arr, profile.columns[i].name, "constant_column")
                 = OneIff(profile.columns[i].distinct_count
                              <= detector.constant_threshold)
            /\ IssueCount(issues.val.arr, profile.columns[i].name, "negative_values")
                 = OneIff(/\ profile.columns[i].name \in AmountNames
                          /\ "min" \in DOMAIN profile.columns[i]
                          /\ profile.columns[i].min < 0)
        /\ \A k \in 1..Len(issues.val.arr) :
            /\ issues.val.arr[k].obj.issue_type \in {JStr(t) : t \in RuleIssueTypes}
            /\ issues.val.arr[k].obj.column \in {JStr(n) : n \in ColumnNames(profile)}

\* C9 happens: one column received all four issues
C9_Witness ==
    /\ DetectReturned
    /\ ~detector.client
    /\ Len(profile.columns) = 1
    /\ Len(issues.val.arr) = 4
    /\ \A t \in RuleIssueTypes :
           IssueCount(issues.val.arr, profile.columns[1].name, t) = 1

ColumnNamed(prof, name) ==
    prof.columns[CHOOSE i \in 1..Len(prof.columns) : prof.columns[i].name = name]

\* severity, priority and value C10 gives for an issue of type t on column col
ClaimedMetadata(t, col) ==
    CASE t = "non_unique_id"   -> <<"error", "CRITICAL", col.distinct_pct>>
      [] t = "high_null_rate"  -> <<"warning", "HIGH", col.null_pct>>
      [] t = "constant_column" -> <<"info", "LOW", col.distinct_count>>
      [] t = "negative_values" -> <<"warning", "HIGH", col.min>>

IssueMetadata(issue) ==
    <<issue.obj.severity.str, issue.obj.priority.str, issue.obj.value.num>>

\* C10: every issue of the rule engine carries the severity and priority of
\* its type and the triggering statistic of its column as value; a column
\* user_id with distinct_pct 0.8 under the default thresholds has exactly one
\* non_unique_id issue, with priority CRITICAL and value 0.8.
C10_IssueMetadata ==
    (DetectReturned /\ ~detector.client) =>
        /\ \A k \in 1..Len(issues.val.arr) :
               IssueMetadata(issues.val.arr[k])
                   = ClaimedMetadata(issues.val.arr[k].obj.issue_type.str,
                         ColumnNamed(profile, issues.val.arr[k].obj.column.str))
        /\ \A i \in 1..Len(profile.columns) :
               (/\ profile.columns[i].name = "user_id"
                /\ profile.columns[i].distinct_pct = 800
                /\ detector.id_uniqueness_threshold = DefaultIdUniquenessThreshold)
               => \E k \in 1..Len(issues.val.arr) :
                    /\ issues.val.arr[k].obj.column = JStr("user_id")
                    /\ issues.val.arr[k].obj.issue_type = JStr("non_unique_id")
                    /\ issues.val.arr[k].obj.priority = JStr("CRITICAL")
                    /\ issues.val.arr[k].obj.value = JNum(800)
                    /\ IssueCount(issues.val.arr, "user_id", "non_unique_id") = 1

\* C10 happens: user_id with distinct_pct 0.8 under the default thresholds,
\* next to a column with a high_null_rate and a negative_values issue
C10_Witness ==
    /\ DetectReturned
    /\ ~detector.client
    /\ detector.id_uniqueness_threshold = DefaultIdUniquenessThreshold
    /\ \E i \in 1..Len(profile.columns) :
           profile.columns[i].name = "user_id" /\ profile.columns[i].distinct_pct = 800
    /\ IssueCount(issues.val.arr, "user_id", "non_unique_id") = 1
    /\ IssueCount(issues.val.arr, "amount", "high_null_rate") = 1
    /\ IssueCount(issues.val.arr, "amount", "negative_values") = 1

\* position of the column an issue names, in the profile
ColumnIndex(prof, issue) ==
    CHOOSE i \in 1..Len(prof.columns) : JStr(prof.columns[i].name) = issue.obj.column

\* position of an issue's check in the order high_null_rate, non_unique_id,
\* constant_column, negative_values
CheckRank(issue) ==
    CASE issue.obj.issue_type = JStr("high_null_rate")  -> 1
      [] issue.obj.issue_type = JStr("non_unique_id")   -> 2
      [] issue.obj.issue_type = JStr("constant_column") -> 3
      [] issue.obj.issue_type = JStr("negative_values") -> 4

\* C11: the list of the rule engine is ordered by the position of the column
\* in the profile and, within a column, by the fixed order of the checks: of
\* two issues the earlier one is on an earlier column, or on the same column
\* with an earlier check.
C11_RuleIssueOrder ==
    (DetectReturned /\ ~detector.client) =>
        \A i, j \in 1..Len(issues.val.arr) :
            i < j =>
                \/ ColumnIndex(profile, issues.val.arr[i])
                       < ColumnIndex(profile, issues.val.arr[j])
                \/ /\ ColumnIndex(profile, issues.val.arr[i])
                          = ColumnIndex(profile, issues.val.arr[j])
                   /\ CheckRank(issues.val.arr[i]) < CheckRank(issues.val.arr[j])

\* C11 happens: two columns with issues, the first of them with two issues,
\* and the second column's check comes earlier in the check order than the
\* first column's last check
C11_Witness ==
    /\ DetectReturned
    /\ ~detector.client
    /\ Len(profile.columns) = 2
    /\ Len(issues.val.arr) = 3
    /\ ColumnIndex(profile, issues.val.arr[2]) = 1
    /\ ColumnIndex(profile, issues.val.arr[3]) = 2
    /\ CheckRank(issues.val.arr[3]) < CheckRank(issues.val.arr[2])

\* the tests C12 gives for the non_unique_id issues of a list
UniqueTestsOf(list) ==
    LET hits == SelectSeq(list, LAMBDA e : e.obj.issue_type = JStr("non_unique_id")) IN
    [k \in 1..Len(hits) |->
        JObj([column |-> hits[k].obj.column, test_type |-> JStr("unique"),
              config |-> EmptyDict])]

\* the tests C12 gives for the columns with null_pct < 0.05
NotNullTestsOf(columns) ==
    LET hits == SelectSeq(columns, LAMBDA c : c.null_pct < 50) IN
    [k \in 1..Len(hits) |->
        JObj([column |-> JStr(hits[k].name), test_type |-> JStr("not_null"),
              config |-> EmptyDict])]

\* C12: the fallback generator returns exactly one `unique` test with empty
\* config per non_unique_id issue, in issue order, followed by one `not_null`
\* test with empty config per column with null_pct < 0.05, in column order,
\* nothing for other issues, nothing deduplicated, with the fixed fallback
\* description.
C12_FallbackTestsExact ==
    (GenerateReturned /\ ~generator.client) =>
        suggestions =
            Ok(JObj([description |->
                        JStr("Rule-based test suggestions (LLM unavailable)"),
                     tests |-> JArr(UniqueTestsOf(issues.val.arr)
                                    \o NotNullTestsOf(profile.columns))]))

\* C12 happens: a single column with null_pct 0.02 and no issue gives exactly
\* one test, not_null on that column
C12_Witness ==
    /\ GenerateReturned
    /\ ~generator.client
    /\ Len(profile.columns) = 1
    /\ profile.columns[1].null_pct = 20
    /\ issues.val.arr = <<>>
    /\ suggestions.val.obj.tests.arr
           = <<JObj([column |-> JStr(profile.columns[1].name),
                     test_type |-> JStr("not_null"), config |-> EmptyDict])>>

SerializerReturned == pc = "done" /\ document.ok

InputTests == suggestions.val.obj.tests.arr
ColumnGroups == document.val.obj.models.arr[1].obj.columns.arr

\* position of the first input test on the column named
FirstSeen(tests, name) ==
    CHOOSE i \in 1..Len(tests) :
        /\ tests[i].obj.column = name
        /\ \A h \in 1..(i - 1) : tests[h].obj.column # name

\* how C14 renders one test
Rendered(test) ==
    IF "config" \notin DOMAIN test.obj \/ DOMAIN test.obj.config.obj = {}
    THEN test.obj.test_type
    ELSE JObj(test.obj.test_type.str :> test.obj.config)

RenderedAll(tests) == [k \in 1..Len(tests) |-> Rendered(tests[k])]

RECURSIVE TotalTests(_, _)
TotalTests(groups, k) ==
    IF k > Len(groups) THEN 0
    ELSE Len(groups[k].obj.tests.arr) + TotalTests(groups, k + 1)

\* C13: the document has version 2 and one model entry named table_name; its
\* column groups have pairwise distinct names in first-seen order of the
\* input; each group is non-empty and holds exactly the input tests of its
\* column in their original order; the rendered tests number the input tests.
C13_SerializerPartitionsByColumn ==
    SerializerReturned =>
        /\ document.val.obj.version = JNum(2)
        /\ Len(document.val.obj.models.arr) = 1
        /\ document.val.obj.models.arr[1].obj.name = JStr(profile.table_name)
        /\ \A a, b \in 1..Len(ColumnGroups) :
               a < b =>
                   /\ ColumnGroups[a].obj.name # ColumnGroups[b].obj.name
                   /\ FirstSeen(InputTests, ColumnGroups[a].obj.name)
                          < FirstSeen(InputTests, ColumnGroups[b].obj.name)
        /\ \A i \in 1..Len(InputTests) :
               \E a \in 1..Len(ColumnGroups) :
                   ColumnGroups[a].obj.name = InputTests[i].obj.column
        /\ \A a \in 1..Len(ColumnGroups) :
               /\ Len(ColumnGroups[a].obj.tests.arr) > 0
               /\ ColumnGroups[a].obj.tests.arr =
                      RenderedAll(SelectSeq(InputTests,
                          LAMBDA t : t.obj.column = ColumnGroups[a].obj.name))
        /\ TotalTests(ColumnGroups, 1) = Len(InputTests)

\* C13 happens: the tests of one column are interleaved with a test of
\* another, and the first group holds the bare strings unique, not_null
C13_Witness ==
    /\ SerializerReturned
    /\ Len(InputTests) = 3
    /\ InputTests[1].obj.column = JStr("id")
    /\ InputTests[2].obj.column = JStr("name")
    /\ InputTests[3].obj.column = JStr("id")
    /\ Len(ColumnGroups) = 2
    /\ ColumnGroups[1].obj.name = JStr("id")
    /\ ColumnGroups[1].obj.tests.arr = <<JStr("unique"), JStr("not_null")>>

\* the rendered entry of input test i: in the group of its column, at the
\* rank of test i among the input tests of that column
RenderedAt(i) ==
    LET a == CHOOSE a \in 1..Len(ColumnGroups) :
                 ColumnGroups[a].obj.name = InputTests[i].obj.column
        rank == Cardinality({h \in 1..i :
                    InputTests[h].obj.column = InputTests[i].obj.column})
    IN ColumnGroups[a].obj.tests.arr[rank]

\* C14: a test is rendered as its bare test_type string exactly when its
\* config is empty or absent, and otherwise as a mapping whose single key is
\* the test_type and whose value is the config unchanged.
C14_BareUnlessConfigured ==
    SerializerReturned =>
        \A i \in 1..Len(InputTests) :
            IF "config" \notin DOMAIN InputTests[i].obj
               \/ InputTests[i].obj.config = EmptyDict
            THEN RenderedAt(i) = InputTests[i].obj.test_type
            ELSE /\ RenderedAt(i).kind = "obj"
                 /\ DOMAIN RenderedAt(i).obj = {InputTests[i].obj.test_type.str}
                 /\ RenderedAt(i).obj[InputTests[i].obj.test_type.str]
                        = InputTests[i].obj.config

\* C14 happens: one column with a test without config, rendered bare, and a
\* test with a config, rendered as a mapping
C14_Witness ==
    /\ SerializerReturned
    /\ Len(InputTests) = 2
    /\ "config" \notin DOMAIN InputTests[1].obj
    /\ InputTests[2].obj.config = JObj([min_value |-> JNum(0)])
    /\ Len(ColumnGroups) = 1
    /\ ColumnGroups[1].obj.tests.arr
           = <<JStr("not_null"),
               JObj([expect_column_values_to_be_between |->
                        JObj([min_value |-> JNum(0)])])>>

Profiled == pc = "profiled"

LoadedTable == df.val.frame

\* the rows of a column that hold a value
ValueRows(col) == {r \in 1..Len(col.values) : col.values[r].kind # "null"}

\* the distinct values of a column, nulls left out
DistinctValues(col) == {col.values[r] : r \in ValueRows(col)}

\* p is the float n / d, and 0 when d = 0
IsRatio(p, n, d) ==
    /\ p.den > 0
    /\ IF d = 0 THEN p.num = 0 ELSE p.num * d = n * p.den

\* C15: in every profile, for every column, null_count <= row_count and
\* distinct_count <= row_count - null_count (nulls are not distinct values);
\* null_pct = null_count / row_count and distinct_pct = distinct_count /
\* row_count, both 0 when row_count = 0 and both within [0, 1]; row_count
\* and column_count are the table's numbers of rows and columns, and
\* `columns` follows the column order of the table.
C15_ProfileCounts ==
    Profiled =>
        /\ profile.row_count = LoadedTable.nrows
        /\ profile.column_count = Len(LoadedTable.columns)
        /\ Len(profile.columns) = Len(LoadedTable.columns)
        /\ \A i \in 1..Len(LoadedTable.columns) :
            /\ profile.columns[i].name = LoadedTable.columns[i].name
            /\ profile.columns[i].null_count
                   = profile.row_count - Cardinality(ValueRows(LoadedTable.columns[i]))
            /\ profile.columns[i].distinct_count
                   = Cardinality(DistinctValues(LoadedTable.columns[i]))
            /\ profile.columns[i].null_count <= profile.row_count
            /\ profile.columns[i].distinct_count
                   <= profile.row_count - profile.columns[i].null_count
            /\ IsRatio(profile.columns[i].null_pct,
                       profile.columns[i].null_count, profile.row_count)
            /\ IsRatio(profile.columns[i].distinct_pct,
                       profile.columns[i].distinct_count, profile.row_count)
            /\ 0 <= profile.columns[i].null_pct.num
            /\ profile.columns[i].null_pct.num <= profile.columns[i].null_pct.den
            /\ 0 <= profile.columns[i].distinct_pct.num
            /\ profile.columns[i].distinct_pct.num
                   <= profile.columns[i].distinct_pct.den

\* C15 happens: three rows, one of them null and the other two equal
C15_Witness ==
    /\ Profiled
    /\ profile.row_count = 3
    /\ profile.columns[1].null_count = 1
    /\ profile.columns[1].distinct_count = 1
    /\ profile.columns[1].null_pct = [num |-> 1, den |-> 3]
    /\ profile.columns[1].distinct_pct = [num |-> 1, den |-> 3]

\* the rows where a value of the column occurs for the first time
FirstOccurrences(col) ==
    {r \in ValueRows(col) : \A h \in 1..(r - 1) : col.values[h] # col.values[r]}

\* the k-th of them
KthFirstOccurrence(col, k) ==
    CHOOSE r \in FirstOccurrences(col) :
        Cardinality({h \in FirstOccurrences(col) : h < r}) = k - 1

\* a value as example_values lists it: a timestamp as its text
Listed(v) == IF v.kind = "time" THEN [kind |-> "str", time |-> v.time] ELSE v

\* C16: example_values has length min(5, number of distinct non-null
\* values), holds no null and no value twice, and lists the first distinct
\* non-null values in the order they first occur in the rows.
C16_ExampleValues ==
    Profiled =>
        \A i \in 1..Len(LoadedTable.columns) :
            /\ Len(profile.columns[i].example_values)
                   = Min2(5, Cardinality(DistinctValues(LoadedTable.columns[i])))
            /\ \A k \in 1..Len(profile.columns[i].example_values) :
                /\ profile.columns[i].example_values[k].kind # "null"
                /\ profile.columns[i].example_values[k]
                       = Listed(LoadedTable.columns[i].values[
                                    KthFirstOccurrence(LoadedTable.columns[i], k)])
                /\ \A h \in 1..(k - 1) :
                       profile.columns[i].example_values[h]
                           # profile.columns[i].example_values[k]

\* C16 happens: nine rows with a null, repeats and six distinct numbers, of
\* which the first five are listed
C16_Witness ==
    /\ Profiled
    /\ profile.row_count = 9
    /\ profile.columns[1].distinct_count = 6
    /\ profile.columns[1].example_values
           = <<JNum(3), JNum(1), JNum(4), JNum(5), JNum(6)>>

NumericKeys == {"min", "max", "mean", "median", "std"}

\* C17: a column's profile has the five numeric keys when its dtype is
\* numeric (a number type, not boolean, text or temporal) and it has a
\* non-null value, and none of them otherwise.
C17_NumericBlockIffNumeric ==
    Profiled =>
        \A i \in 1..Len(LoadedTable.columns) :
            NumericKeys \cap DOMAIN profile.columns[i]
                = IF /\ LoadedTable.columns[i].dtype \in {"int64", "float64"}
                     /\ ValueRows(LoadedTable.columns[i]) # {}
                  THEN NumericKeys ELSE {}

StdIsZero(col) == "root_of" \in DOMAIN col.std /\ col.std.root_of.num = 0

Recognized(f) == f.suffix \in {".csv", ".CSV", ".parquet", ".pq"}

LoadAttempted == pc # "load"

\* C20: a load failure reaches the caller unchanged and distinguishable: a
\* missing path as the not-found condition, an unrecognized extension as the
\* unsupported-format condition, empty content as the empty condition and
\* unparseable content as the parse-failure condition; and after a load
\* failure no later stage runs.
C20_LoadFailuresUnchanged ==
    LoadAttempted =>
        /\ ~file.exists => (pc = "rejected" \/ df = Raise(FileNotFoundError))
        /\ (file.exists /\ ~Recognized(file)) => df = Raise(UnsupportedFormatError)
        /\ (file.exists /\ Recognized(file) /\ file.content = "empty")
               => df = Raise(EmptyFileError)
        /\ (file.exists /\ Recognized(file) /\ file.content = "malformed")
               => df = Raise(ParseFileError)
        /\ ~df.ok => (pc \in {"rejected", "aborted"} /\ profile = NotReturned)

\* how many tests of one type the list holds for one column
TestCount(tests, name, type) ==
    Cardinality({k \in 1..Len(tests) :
        tests[k].obj.column = JStr(name) /\ tests[k].obj.test_type = JStr(type)})

AllDeterministic == GenerateReturned /\ ~detector.client /\ ~generator.client

\* C21: in the all-deterministic pipeline (rule-engine detection followed by
\* fallback generation on the same profile) with high_null_threshold >= 0.05,
\* no column that carries a high_null_rate issue receives a not_null test, and
\* a column receives both a unique and a not_null test exactly when it has a
\* non_unique_id issue and null_pct < 0.05.
C21_HighNullNeverNotNull ==
    (AllDeterministic /\ detector.high_null_threshold >= LowNullCutoff) =>
        \A i \in 1..Len(profile.columns) :
            /\ IssueCount(issues.val.arr, profile.columns[i].name,
                          "high_null_rate") > 0
                   => TestCount(InputTests, profile.columns[i].name,
                                "not_null") = 0
            /\ (/\ TestCount(InputTests, profile.columns[i].name, "unique") > 0
                /\ TestCount(InputTests, profile.columns[i].name,
                             "not_null") > 0)
                   <=> (/\ IssueCount(issues.val.arr, profile.columns[i].name,
                                      "non_unique_id") > 0
                        /\ profile.columns[i].null_pct < LowNullCutoff)

\* C21 happens: one run of the pipeline gives a column with a high_null_rate
\* issue no not_null test, and a column with a non_unique_id issue and
\* null_pct below 0.05 both a unique and a not_null test
C21_Witness ==
    /\ AllDeterministic
    /\ detector.high_null_threshold >= LowNullCutoff
    /\ \E i, j \in 1..Len(profile.columns) :
           /\ IssueCount(issues.val.arr, profile.columns[i].name,
                         "high_null_rate") = 1
           /\ TestCount(InputTests, profile.columns[i].name, "not_null") = 0
           /\ IssueCount(issues.val.arr, profile.columns[j].name,
                         "non_unique_id") = 1
           /\ profile.columns[j].null_pct < LowNullCutoff
           /\ TestCount(InputTests, profile.columns[j].name, "unique") = 1
           /\ TestCount(InputTests, profile.columns[j].name, "not_null") = 1

\* the threshold of C21 is needed: below 0.05 a column can carry a
\* high_null_rate issue and receive a not_null test
C21_BelowCutoff ==
    /\ AllDeterministic
    /\ detector.high_null_threshold < LowNullCutoff
    /\ \E i \in 1..Len(profile.columns) :
           /\ IssueCount(issues.val.arr, profile.columns[i].name,
                         "high_null_rate") = 1
           /\ TestCount(InputTests, profile.columns[i].name, "not_null") = 1

\* both stages of the run have been invoked
BothStagesRan == detPath # <<>> /\ genPath # <<>>

\* a key is supplied by --api-key and OPENAI_API_KEY is unset
KeyOnlyOnCommandLine == environ.OPENAI_API_KEY = "" /\ api_key # ""

\* the tier a stage tried first
SelectedTier(path) == path[1]

\* the detector takes its key from OPENAI_API_KEY alone, the generator the
\* option of the run
KeyRouting ==
    /\ detector.api_key = environ.OPENAI_API_KEY
    /\ generator.api_key = api_key

\* C22 as stated: in `run` the key given on the command line reaches only the
\* test generator, the detector taking its key from OPENAI_API_KEY alone; so
\* with a key supplied only via --api-key detection uses the rule engine while
\* generation uses the generative backend, and the two stages select the same
\* tier only when the environment variable is set or no key is given at all.
C22_KeyReachesGeneratorOnly ==
    /\ KeyRouting
    /\ BothStagesRan =>
           /\ KeyOnlyOnCommandLine
                  => (/\ detPath = <<"fallback">>
                      /\ SelectedTier(genPath) = "llm")
           /\ SelectedTier(detPath) = SelectedTier(genPath)
                  => (environ.OPENAI_API_KEY # "" \/ api_key = "")

\* C22: in `run` the key given on the command line reaches only the test
\* generator, the detector taking its key from OPENAI_API_KEY alone; where
\* the openai package is importable, a key supplied only via --api-key makes
\* detection use the rule engine while generation uses the generative
\* backend, and the two stages select the same tier exactly when the
\* environment variable is set or no key is given at all; where the package
\* is not importable, both stages use the rule-based tier whatever the keys.
C22_KeyReachesGeneratorOnlyWherePackage ==
    /\ KeyRouting
    /\ (BothStagesRan /\ environ.OPENAI_AVAILABLE) =>
           /\ KeyOnlyOnCommandLine
                  => (/\ detPath = <<"fallback">>
                      /\ SelectedTier(genPath) = "llm")
           /\ SelectedTier(detPath) = SelectedTier(genPath)
                  <=> (environ.OPENAI_API_KEY # "" \/ api_key = "")
    /\ (BothStagesRan /\ ~environ.OPENAI_AVAILABLE) =>
           (detPath = <<"fallback">> /\ genPath = <<"fallback">>)

\* C22 happens: with the package importable and a key given only by
\* --api-key, detection ran on the rule engine without a call and generation
\* called the backend with the key of the command line
C22_Witness ==
    /\ BothStagesRan
    /\ environ.OPENAI_AVAILABLE
    /\ KeyOnlyOnCommandLine
    /\ detector.api_key = ""
    /\ generator.api_key = "sk-cli"
    /\ detPath = <<"fallback">>
    /\ detCalls = 0
    /\ SelectedTier(genPath) = "llm"
    /\ genCalls = 1

\* the keys differ: with both OPENAI_API_KEY and --api-key given, the detector
\* holds the former, the generator the latter, and both select the backend
C22_BothKeys ==
    /\ BothStagesRan
    /\ detector.api_key = "sk-env"
    /\ generator.api_key = "sk-cli"
    /\ SelectedTier(detPath) = "llm"
    /\ SelectedTier(genPath) = "llm"

====
